---- MODULE Spec2Model ----
(***************************************************************************)
(* Model of the merchandiser agent: the SQLite inventory store             *)
(* (tools/database.py), the LangGraph workflow (agent_graph.py) and the    *)
(* chat and payment handlers (protocols/chat_proto.py, payment_proto.py).  *)
(*                                                                         *)
(* Item names are sequences of one-character strings, so that the          *)
(* resolver's lowercasing, stripping and suffix handling are computed.     *)
(* Prices are kept in cents.                                               *)
(***************************************************************************)
EXTENDS Integers, Sequences, FiniteSets, Bags, TLC

\* ------------------------------------------------------------------ bounds
\* The quantity a line item of an order asks for.
OrderQty == 2
\* Largest number of line items in a chat request.
MaxItems == 2
\* Largest number of line items in the metadata of a CommitPayment.
MaxMetaItems == 1
\* Number of chat requests handled in one behaviour.
MaxChats == 1
\* Number of CommitPayment deliveries (handler instances) in one behaviour.
NumCommits == 2
\* Number of RejectPayment messages handled in one behaviour.
MaxRejects == 1
\* Number of concurrent callers of the store in SpecStore.
NumClients == 2
\* Largest quantity a caller of the store passes in SpecStore.
MaxStoreQty == 3
\* Most units on hand a restock reaches in SpecLib.
MaxLibQty == 4
\* Number of calls of request_payment_from_user in one behaviour.
NumRequesters == 3

\* ------------------------------------------------------------------ names
tshirt == <<"t", "s", "h", "i", "r", "t">>
jeans == <<"j", "e", "a", "n", "s">>
shoes == <<"s", "h", "o", "e", "s">>
hat == <<"h", "a", "t">>
jacket == <<"j", "a", "c", "k", "e", "t">>
\* variants a user may type
TShirts == <<"T", "-", "S", "h", "i", "r", "t", "s">>
socks == <<"s", "o", "c", "k", "s">>

\* A value that may be missing (None, or a key a dict does not hold) is a
\* sequence of length 0 or 1.
None == <<>>
Some(v) == <<v>>
Get(o) == o[1]

\* a string the record does not hold
Absent == "absent"

UpperChars == <<"A", "B", "C", "D", "E", "F", "G", "H", "I", "J", "K", "L", "M",
                "N", "O", "P", "Q", "R", "S", "T", "U", "V", "W", "X", "Y", "Z">>
LowerChars == <<"a", "b", "c", "d", "e", "f", "g", "h", "i", "j", "k", "l", "m",
                "n", "o", "p", "q", "r", "s", "t", "u", "v", "w", "x", "y", "z">>

\* str.upper() on one character
UpperChar(c) ==
    IF \E i \in 1..Len(LowerChars) : LowerChars[i] = c
    THEN UpperChars[CHOOSE i \in 1..Len(LowerChars) : LowerChars[i] = c]
    ELSE c

\* str.lower() / SQL LOWER() on one character
LowerChar(c) ==
    IF \E i \in 1..Len(UpperChars) : UpperChars[i] = c
    THEN LowerChars[CHOOSE i \in 1..Len(UpperChars) : UpperChars[i] = c]
    ELSE c

Lower(s) == [i \in 1..Len(s) |-> LowerChar(s[i])]

IsSpace(c) == c \in {" ", "\t", "\n"}

RECURSIVE LStrip(_)
LStrip(s) == IF s # <<>> /\ IsSpace(Head(s)) THEN LStrip(Tail(s)) ELSE s

RECURSIVE RStrip(_)
RStrip(s) ==
    IF s # <<>> /\ IsSpace(s[Len(s)]) THEN RStrip(SubSeq(s, 1, Len(s) - 1)) ELSE s

\* str.strip()
Strip(s) == RStrip(LStrip(s))

\* str.replace(c, "")
RemoveChar(s, c) == SelectSeq(s, LAMBDA x : x # c)

\* ------------------------------------------------------------- resolver
db_item_names == {tshirt, jeans, shoes, hat, jacket}

name_mappings ==
    (<<"t", "s", "h", "i", "r", "t", "s">> :> tshirt)
    @@ (<<"t", "-", "s", "h", "i", "r", "t", "s">> :> tshirt)
    @@ (<<"t", "_", "s", "h", "i", "r", "t", "s">> :> tshirt)
    @@ (tshirt :> tshirt)
    @@ (<<"s", "h", "o", "e">> :> shoes)
    @@ (shoes :> shoes)
    @@ (<<"h", "a", "t", "s">> :> hat)
    @@ (hat :> hat)
    @@ (<<"j", "a", "c", "k", "e", "t", "s">> :> jacket)
    @@ (jacket :> jacket)
    @@ (jeans :> jeans)
    @@ (<<"j", "e", "a", "n">> :> jeans)

\* resolve_normalized without the alias table
MutResolveNormalized(normalized) ==
    IF normalized \in db_item_names THEN normalized
    ELSE IF normalized # <<>> /\ normalized[Len(normalized)] = "s"
              /\ SubSeq(normalized, 1, Len(normalized) - 1) \in db_item_names
         THEN SubSeq(normalized, 1, Len(normalized) - 1)
         ELSE normalized

\* normalize_item_name once the name is lowercased, stripped and freed of
\* hyphens and spaces: the alias table, the stored names, then one retry
\* without a trailing "s".
resolve_normalized(normalized) ==
    IF normalized \in DOMAIN name_mappings THEN name_mappings[normalized]
    ELSE IF normalized \in db_item_names THEN normalized
    ELSE IF normalized # <<>> /\ normalized[Len(normalized)] = "s"
         THEN LET singular == SubSeq(normalized, 1, Len(normalized) - 1)
              IN  IF singular \in db_item_names THEN singular
                  ELSE IF singular \in DOMAIN name_mappings
                       THEN name_mappings[singular]
                       ELSE normalized
         ELSE normalized

\* normalize_item_name that looks the name up as it was given
MutNormalizeItemName(item_name) ==
    IF item_name = <<>> THEN <<>> ELSE resolve_normalized(item_name)

normalize_item_name(item_name) ==
    IF item_name = <<>> THEN <<>>
    ELSE resolve_normalized(
             RemoveChar(RemoveChar(Strip(Lower(item_name)), "-"), " "))

\* ---------------------------------------------------------------- store
\* The seed catalog init_database inserts into an empty table.
sample_items ==
    (tshirt :> [quantity |-> 10, price |-> 1999])
    @@ (jeans :> [quantity |-> 5, price |-> 4999])
    @@ (shoes :> [quantity |-> 8, price |-> 7999])
    @@ (hat :> [quantity |-> 15, price |-> 1499])
    @@ (jacket :> [quantity |-> 3, price |-> 9999])

\* init_database with the table re-seeded whatever it holds
MutInitDatabase(inv) ==
    [n \in DOMAIN inv \cup DOMAIN sample_items |->
        IF n \in DOMAIN sample_items THEN sample_items[n] ELSE inv[n]]

\* init_database on the rows the table holds (none when the table was just
\* created): an empty table is seeded; otherwise the default price is
\* written to each seed item whose price is NULL or 0 (both are price 0
\* here), and nothing else is written.
init_database(inv) ==
    IF DOMAIN inv = {} THEN sample_items
    ELSE [n \in DOMAIN inv |->
             IF n \in DOMAIN sample_items /\ inv[n].price = 0
             THEN [inv[n] EXCEPT !.price = sample_items[n].price]
             ELSE inv[n]]

\* get_connection that runs init_database on every call
MutGetConnection(exists, inv) == init_database(inv)

\* get_connection: the rows a call works on; init_database runs first when
\* the inventory table does not exist.
get_connection(exists, inv) == IF exists THEN inv ELSE init_database(inv)

\* select_rows without the case-insensitive SELECT
MutSelectRows(inv, item_name, normalized_name) ==
    IF item_name \in DOMAIN inv THEN {item_name}
    ELSE {r \in DOMAIN inv : r = normalized_name}

\* The three SELECTs of check_stock: WHERE item_name = ? (a binary
\* comparison), then the normalized name when it differs, then
\* LOWER(item_name) = LOWER(?); the rows matched, {} when none.
select_rows(inv, item_name, normalized_name) ==
    LET exact == {r \in DOMAIN inv : r = item_name}
        byNorm == IF exact = {} /\ normalized_name # item_name
                  THEN {r \in DOMAIN inv : r = normalized_name}
                  ELSE exact
    IN  IF byNorm = {}
        THEN {r \in DOMAIN inv : Lower(r) = Lower(item_name)}
        ELSE byNorm

\* result[0] if result else 0
fetched_quantity(inv, rows) ==
    IF rows = {} THEN 0 ELSE inv[CHOOSE r \in rows : TRUE].quantity

check_stock(inv, item_name) ==
    fetched_quantity(inv, select_rows(inv, item_name,
                                      normalize_item_name(item_name)))

\* check_stock_multiple that looks up the name as given only
MutCheckStockMultiple(inv, items) ==
    [n \in {items[i].item_name : i \in 1..Len(items)} |->
        IF n \in DOMAIN inv THEN inv[n].quantity ELSE 0]

\* check_stock_multiple: the same lookup per item, results keyed by the
\* original names of the batch
check_stock_multiple(inv, items) ==
    [n \in {items[i].item_name : i \in 1..Len(items)} |->
        fetched_quantity(inv, select_rows(inv, n, normalize_item_name(n)))]

\* get_item_price: exact match only, 0.0 for a name with no row or a NULL
\* price
get_item_price(inv, item_name) ==
    IF item_name \in DOMAIN inv THEN inv[item_name].price ELSE 0

\* get_items_prices: exact match only, 0.0 for a name with no row
get_items_prices(inv, items) ==
    [n \in {items[i].item_name : i \in 1..Len(items)} |->
        IF n \in DOMAIN inv THEN inv[n].price ELSE 0]

\* insufficient with the comparison dropped
MutInsufficient(current_qty, quantity) == FALSE

\* The guard of subtract_inventory on the quantity it read.
insufficient(current_qty, quantity) == current_qty < quantity

\* subtract_inventory reporting success for an unknown item
MutSubtractInventory(inv, item_name, quantity) ==
    IF item_name \notin DOMAIN inv THEN [success |-> TRUE, inv |-> inv]
    ELSE IF insufficient(inv[item_name].quantity, quantity)
         THEN [success |-> FALSE, inv |-> inv]
         ELSE [success |-> TRUE,
               inv |-> [inv EXCEPT ![item_name].quantity = @ - quantity]]

\* subtract_inventory run without interruption: the result and the new table
subtract_inventory(inv, item_name, quantity) ==
    IF item_name \notin DOMAIN inv THEN [success |-> FALSE, inv |-> inv]
    ELSE IF insufficient(inv[item_name].quantity, quantity)
         THEN [success |-> FALSE, inv |-> inv]
         ELSE [success |-> TRUE,
               inv |-> [inv EXCEPT ![item_name].quantity = @ - quantity]]

\* restock_item refusing to go above the seeded quantity
MutRestockItemCapped(inv, item_name, quantity) ==
    IF item_name \notin DOMAIN inv THEN [success |-> FALSE, inv |-> inv]
    ELSE IF inv[item_name].quantity + quantity > 5
         THEN [success |-> FALSE, inv |-> inv]
         ELSE [success |-> TRUE,
               inv |-> [inv EXCEPT ![item_name].quantity = @ + quantity]]

\* restock_item adding one more than asked
MutRestockItemOneMore(inv, item_name, quantity) ==
    IF item_name \notin DOMAIN inv THEN [success |-> FALSE, inv |-> inv]
    ELSE [success |-> TRUE,
          inv |-> [inv EXCEPT ![item_name].quantity = @ + quantity + 1]]

\* restock_item run without interruption
restock_item(inv, item_name, quantity) ==
    IF item_name \notin DOMAIN inv THEN [success |-> FALSE, inv |-> inv]
    ELSE [success |-> TRUE,
          inv |-> [inv EXCEPT ![item_name].quantity = @ + quantity]]

\* ------------------------------------------------------------- workflow
\* An AgentState is a record; a key the Python dict does not hold is None.
\* messages keeps only the AIMessages a run appends: run_agent_turn returns
\* the last of them.

\* [f"{item['quantity']}x {item['item_name']}" for item in parsed_items]
items_summary(parsed_items) ==
    [i \in 1..Len(parsed_items) |->
        <<parsed_items[i].quantity, "x", parsed_items[i].item_name>>]

is_available(inv, item) == check_stock(inv, item.item_name) >= item.quantity

\* The keys of stock_check_results whose entry is not available. The dict
\* is keyed by item_name: a later line item with the same name overwrites
\* the entry, the key keeps its first position.
RECURSIVE unavailable_names(_, _, _)
unavailable_names(inv, items, i) ==
    IF i > Len(items) THEN <<>>
    ELSE LET n == items[i].item_name
             first == \A j \in 1..(i - 1) : items[j].item_name # n
             last == CHOOSE j \in i..Len(items) :
                        /\ items[j].item_name = n
                        /\ \A k \in (j + 1)..Len(items) : items[k].item_name # n
         IN  (IF first /\ ~is_available(inv, items[last]) THEN <<n>> ELSE <<>>)
             \o unavailable_names(inv, items, i + 1)

stock_management_node(inv, state) ==
    IF state.parsed_items = <<>>
    THEN [state EXCEPT !.status = "rejected",
                       !.error_message = <<"No items to check stock for">>,
                       !.stock_availability = Some(FALSE)]
    ELSE IF \A i \in 1..Len(state.parsed_items) :
                is_available(inv, state.parsed_items[i])
    THEN [state EXCEPT !.stock_availability = Some(TRUE),
                       !.status = "checking_stock"]
    ELSE [state EXCEPT !.stock_availability = Some(FALSE),
                       !.status = "rejected",
                       !.messages = Append(@,
                           [kind |-> "stock_rejected",
                            names |-> unavailable_names(inv, state.parsed_items, 1)])]

\* The loop of warehouse_node: subtract line by line, return at the first
\* call that fails. failed is the index of that line, 0 when every call
\* returned True; inv is the table as the loop left it.
RECURSIVE subtract_lines(_, _, _)
subtract_lines(inv, items, i) ==
    IF i > Len(items) THEN [inv |-> inv, failed |-> 0]
    ELSE LET r == subtract_inventory(inv, items[i].item_name, items[i].quantity)
         IN  IF r.success THEN subtract_lines(r.inv, items, i + 1)
             ELSE [inv |-> inv, failed |-> i]

\* The state warehouse_node returns after its loop.
warehouse_state(state, r) ==
    IF r.failed # 0
    THEN [state EXCEPT
             !.status = "subtracting_inventory",
             !.error_message = <<"Failed to subtract inventory for",
                                 state.parsed_items[r.failed].item_name>>]
    ELSE [state EXCEPT
             !.inventory_subtracted = Some(TRUE),
             !.status = "subtracting_inventory",
             !.messages = Append(@, [kind |-> "reserved",
                                     summary |-> items_summary(state.parsed_items)])]

warehouse_loop(state, r) ==
    [inv |-> r.inv, failed |-> r.failed, state |-> warehouse_state(state, r)]

warehouse_node(inv, state) ==
    IF state.parsed_items = <<>>
    THEN [inv |-> inv, failed |-> 0,
          state |-> [state EXCEPT !.status = "subtracting_inventory",
                                  !.error_message = <<"No items to subtract">>]]
    ELSE warehouse_loop(state, subtract_lines(inv, state.parsed_items, 1))

\* cashier_node keeping a payment_status of "failed"
MutCashierNode(state) ==
    [state EXCEPT !.payment_status =
                      IF @ = "failed" THEN "failed" ELSE "successful",
                  !.status = "completed"]

cashier_node(state) ==
    [state EXCEPT !.payment_status = "successful",
                  !.status = "completed",
                  !.messages = Append(@,
                      [kind |-> "completed",
                       summary |-> items_summary(state.parsed_items)])]

\* restocker_loop leaving the status as it found it
MutRestockerLoop(state, r) ==
    [inv |-> r.inv, state |-> [state EXCEPT !.restocked_items = Some(r.restocked)]]

\* The loop of restocker_node: every line is tried, the names whose call
\* returned True are collected.
RECURSIVE restock_lines(_, _, _)
restock_lines(inv, items, i) ==
    IF i > Len(items) THEN [inv |-> inv, restocked |-> <<>>]
    ELSE LET r == restock_item(inv, items[i].item_name, items[i].quantity)
             rest == restock_lines(r.inv, items, i + 1)
         IN  [inv |-> rest.inv,
              restocked |-> (IF r.success THEN <<items[i].item_name>> ELSE <<>>)
                            \o rest.restocked]

restocker_loop(state, r) ==
    [inv |-> r.inv,
     state |-> [state EXCEPT
         !.restocked_items = Some(r.restocked),
         !.status = "completed",
         !.messages = IF r.restocked # <<>>
                      THEN Append(@, [kind |-> "restocked", names |-> r.restocked])
                      ELSE @]]

restocker_node(inv, state) ==
    IF state.parsed_items = <<>>
    THEN [inv |-> inv,
          state |-> [state EXCEPT !.status = "restocking",
                                  !.error_message = <<"No items to restock">>]]
    ELSE restocker_loop(state, restock_lines(inv, state.parsed_items, 1))

\* route_after_stock_check sending every order to the warehouse
MutRouteAfterStockCheck(state) == "warehouse"

route_after_stock_check(state) ==
    IF state.stock_availability = Some(TRUE) THEN "warehouse" ELSE "END"

\* route_after_payment sending every order to the restocker
MutRouteAfterPayment(state) == "restocker"

route_after_payment(state) ==
    IF state.payment_status = "failed" THEN "restocker" ELSE "END"

\* One run of the compiled graph from its entry point, node by node. w is
\* what warehouse_node returned (its table, its failing line, its state);
\* nodes lists the nodes executed.
after_restocker(w, r) ==
    [inv |-> r.inv, state |-> r.state, failed |-> w.failed,
     nodes |-> <<"stock_management", "warehouse", "cashier", "restocker">>]

\* the conditional edges out of cashier
after_cashier(w, state) ==
    IF route_after_payment(state) = "END"
    THEN [inv |-> w.inv, state |-> state, failed |-> w.failed,
          nodes |-> <<"stock_management", "warehouse", "cashier">>]
    ELSE after_restocker(w, restocker_node(w.inv, state))

\* the run ending at the warehouse
MutAfterWarehouse(w) ==
    [inv |-> w.inv, state |-> w.state, failed |-> w.failed,
     nodes |-> <<"stock_management", "warehouse">>]

\* the edge warehouse -> cashier, taken whatever warehouse_node returned
after_warehouse(w) == after_cashier(w, cashier_node(w.state))

\* the conditional edges out of stock_management
after_stock_management(inv, state) ==
    IF route_after_stock_check(state) = "END"
    THEN [inv |-> inv, state |-> state, failed |-> 0,
          nodes |-> <<"stock_management">>]
    ELSE after_warehouse(warehouse_node(inv, state))

run_graph(inv, initial_state) ==
    after_stock_management(inv, stock_management_node(inv, initial_state))

\* A session state none of whose keys is set.
EmptyState ==
    [stock_availability |-> None, inventory_subtracted |-> None,
     payment_status |-> Absent, status |-> Absent, error_message |-> None,
     restocked_items |-> None, parsed_items |-> None,
     payment_confirmed |-> None]

NoContent == [kind |-> "empty"]

\* The state run_agent_turn starts the graph from: the items and the status
\* of the call, and the keys it copies from the session state.
initial_state(parsed_items, session_state) ==
    [messages |-> <<>>,
     parsed_items |-> parsed_items,
     status |-> "checking_stock",
     stock_availability |-> session_state.stock_availability,
     inventory_subtracted |-> session_state.inventory_subtracted,
     payment_status |-> session_state.payment_status,
     restocked_items |-> session_state.restocked_items,
     error_message |-> session_state.error_message]

\* What run_agent_turn returns for a finished run: the content (the last
\* AIMessage of the final state) and the state keys it copies out.
turn_result(run) ==
    [inv |-> run.inv,
     failed |-> run.failed,
     nodes |-> run.nodes,
     content |-> IF run.state.messages = <<>> THEN NoContent
                 ELSE run.state.messages[Len(run.state.messages)],
     state |-> [parsed_items |-> Some(run.state.parsed_items),
                stock_availability |-> run.state.stock_availability,
                inventory_subtracted |-> run.state.inventory_subtracted,
                payment_status |-> run.state.payment_status,
                status |-> run.state.status,
                restocked_items |-> run.state.restocked_items,
                error_message |-> run.state.error_message]]

run_agent_turn(inv, parsed_items, session_state) ==
    turn_result(run_graph(inv, initial_state(parsed_items, session_state)))

\* ------------------------------------------------------------- the agent
VARIABLES
    inventory,   \* the inventory table: item_name -> [quantity, price]
    config,      \* how tools.skyfire is set up in this process
    sessions,    \* ctx.storage["{sender}::{session}"], None when not set
    commit_keys, \* the "commit_{tx}:{sender}:{session}" markers that are set
    paid,        \* the "paid:{sender}:{session}" markers that are set
    outbox,      \* the messages sent with ctx.send, a bag
    commits,     \* the on_commit handler instances and where each stands
    chats,       \* chat requests handled so far
    rejects,     \* RejectPayment messages handled so far
    clients,     \* callers of the store outside the agent's event loop
    table_exists, \* whether inventory.db holds the inventory table
    call,        \* the library call made last, its arguments and result
    payment_requested, \* the "payment_requested:{user}:{session}" markers set
    requesters   \* the calls of request_payment_from_user and where each stands

vars == <<inventory, config, sessions, commit_keys, paid, outbox, commits,
          chats, rejects, clients, table_exists, call, payment_requested,
          requesters>>

\* Order keys (sender, session), transaction ids and payment methods, each
\* in the order in which new ones appear.
KeySeq == <<"alice::s1", "bob::s2">>
TxSeq == <<"tx1", "tx2">>
Keys == {KeySeq[i] : i \in 1..Len(KeySeq)}
TxIds == {TxSeq[i] : i \in 1..Len(TxSeq)}
Methods == {"skyfire", "fet"}

\* "configured": the seller variables are set; "unconfigured": they are not,
\* verify_and_charge returns False and no service id is known. (The
\* fallbacks payment_proto defines when tools.skyfire cannot be imported are
\* left out.)
Configs == {"configured", "unconfigured"}

\* The names orders use: a stored name with few units on hand, and a
\* variant that resolves to a stored name without being one.
OrderNames == {jacket, TShirts}

BoundedSeq(S, n) == UNION {[1..m -> S] : m \in 0..n}

\* What the parser hands to handle_chat: ParsedItem enforces quantity >= 1.
ChatLists == BoundedSeq([item_name : OrderNames, quantity : {OrderQty}], MaxItems)

\* What a CommitPayment may carry in metadata["parsed_items"]: any JSON the
\* payer chose, so quantities are not validated; None when the key is
\* missing.
MetaLists ==
    BoundedSeq([item_name : OrderNames, quantity : {-1, OrderQty}], MaxMetaItems)

get_skyfire_service_id == IF config = "configured" THEN Some("service-id") ELSE None

\* The values verify_and_charge can return: it asks the payment service.
verify_and_charge_results ==
    IF config = "configured" THEN {TRUE, FALSE} ELSE {FALSE}

\* A handler instance that returned: its locals are gone, what it did stays.
Returned(h, outcome, run) ==
    [h EXCEPT !.pc = "done", !.method = Absent, !.metadata = None,
              !.outcome = outcome, !.run = run]

\* Keys and transaction ids are interchangeable: a new one is the next of
\* its sequence, so that behaviours differing only by a renaming are
\* explored once.
KeyUsed(k) ==
    \/ sessions[k] # None
    \/ \E d \in DOMAIN commits : commits[d].sender = k
    \/ \E m \in BagToSet(outbox) : m.to = k
TxUsed(tx) == \E d \in DOMAIN commits : commits[d].tx = tx
NextKey(k) == \A i \in 1..Len(KeySeq) :
                 KeySeq[i] = k => \A j \in 1..(i - 1) : KeyUsed(KeySeq[j])
NextTx(tx) == \A i \in 1..Len(TxSeq) :
                 TxSeq[i] = tx => \A j \in 1..(i - 1) : TxUsed(TxSeq[j])

Send(box, msg) == box (+) SetToBag({msg})

\* An on_commit handler instance: pc is where it stands ("idle" before the
\* message arrives, "verify" while it awaits verify_and_charge, "process"
\* while it awaits the send of CompletePayment, "done" once it returned);
\* outcome and run record what it did.
NoRun == [ran |-> FALSE]
IdleCommit ==
    [pc |-> "idle", sender |-> Absent, tx |-> Absent, method |-> Absent,
     metadata |-> None, outcome |-> Absent, run |-> NoRun]

\* A caller of the store: op is the function it called, pc the statement it
\* is about to execute ("select", "update"), current_qty what its SELECT
\* read, ret what the call returned once pc is "returned".
IdleClient ==
    [pc |-> "idle", op |-> Absent, item_name |-> <<>>, quantity |-> 0,
     current_qty |-> 0, ret |-> FALSE]

\* No library call made yet.
NoCall == [op |-> Absent]

\* A call of request_payment_from_user: pc is where it stands ("idle"
\* before it is made, "send" while it awaits ctx.send of the RequestPayment,
\* "done" once it returned); outcome is what it did.
IdleRequester == [pc |-> "idle", user |-> Absent, outcome |-> Absent]

Init ==
    /\ inventory = sample_items
    /\ config \in Configs
    /\ sessions = [k \in Keys |-> None]
    /\ commit_keys = {}
    /\ paid = {}
    /\ outbox = EmptyBag
    /\ commits = [d \in 1..NumCommits |-> IdleCommit]
    /\ chats = 0
    /\ rejects = 0
    /\ clients = [c \in 1..NumClients |-> IdleClient]
    /\ table_exists = TRUE
    /\ call = NoCall
    /\ payment_requested = {}
    /\ requesters = [r \in 1..NumRequesters |-> IdleRequester]

\* _get_session_data: the stored record, or a fresh one with the default
\* state
get_session_data(k) ==
    IF sessions[k] = None
    THEN [parsed_items |-> None,
          state |-> [EmptyState EXCEPT !.payment_confirmed = Some(FALSE)]]
    ELSE Get(sessions[k])

\* unavailable_items reporting nothing
MutUnavailableItems(parsed_items, stock_results, i) == <<>>

\* The line items handle_chat reports as unavailable, in request order,
\* given the batch result stock_results.
RECURSIVE unavailable_items(_, _, _)
unavailable_items(parsed_items, stock_results, i) ==
    IF i > Len(parsed_items) THEN <<>>
    ELSE (IF stock_results[parsed_items[i].item_name] < parsed_items[i].quantity
          THEN <<[item_name |-> parsed_items[i].item_name,
                  requested |-> parsed_items[i].quantity,
                  available |-> stock_results[parsed_items[i].item_name]]>>
          ELSE <<>>)
         \o unavailable_items(parsed_items, stock_results, i + 1)

\* sum of price * quantity over the line items, given the batch result
\* prices
RECURSIVE total_price(_, _, _)
total_price(parsed_items, prices, i) ==
    IF i > Len(parsed_items) THEN 0
    ELSE prices[parsed_items[i].item_name] * parsed_items[i].quantity
         + total_price(parsed_items, prices, i + 1)

\* chat_reply asking for payment whatever the stock check found
MutChatReply(inv, k, parsed_items, unavailable) ==
    [type |-> "RequestPayment", to |-> k,
     parsed_items |-> parsed_items,
     total_price |-> total_price(parsed_items,
                                 get_items_prices(inv, parsed_items), 1)]

\* What handle_chat sends once the request is parsed and stored, given the
\* unavailable line items.
chat_reply(inv, k, parsed_items, unavailable) ==
    IF unavailable # <<>>
    THEN [type |-> "ChatMessage", to |-> k,
          text |-> [kind |-> "stock_unavailable", parts |-> unavailable]]
    ELSE IF get_skyfire_service_id = None
    THEN [type |-> "ChatMessage", to |-> k,
          text |-> [kind |-> "payment_not_configured"]]
    ELSE [type |-> "RequestPayment", to |-> k,
          parsed_items |-> parsed_items,
          total_price |-> total_price(parsed_items,
                                      get_items_prices(inv, parsed_items), 1)]

\* handle_chat that does not store the items in the session
MutHandleChatUnsaved(k, parsed_items) ==
    /\ chats < MaxChats
    /\ NextKey(k)
    /\ chats' = chats + 1
    /\ outbox' = Send(outbox,
           chat_reply(inventory, k, parsed_items,
                      unavailable_items(parsed_items,
                          check_stock_multiple(inventory, parsed_items), 1)))
    /\ UNCHANGED <<inventory, config, sessions, commit_keys, paid, commits,
                   rejects, clients, table_exists, call, payment_requested,
                   requesters>>

\* handle_chat reserving the items before it asks for payment
MutHandleChat(k, parsed_items) ==
    /\ chats < MaxChats
    /\ NextKey(k)
    /\ chats' = chats + 1
    /\ sessions' = [sessions EXCEPT
                       ![k] = Some([get_session_data(k) EXCEPT
                                       !.parsed_items = Some(parsed_items)])]
    /\ outbox' = Send(outbox,
           chat_reply(inventory, k, parsed_items,
                      unavailable_items(parsed_items,
                          check_stock_multiple(inventory, parsed_items), 1)))
    /\ inventory' = subtract_lines(inventory, parsed_items, 1).inv
    /\ UNCHANGED <<config, commit_keys, paid, commits, rejects, clients,
                   table_exists, call, payment_requested,
                   requesters>>

\* handle_chat, the request parsed into parsed_items: the items are stored
\* in the session, the stock is checked, and either the shortage is
\* reported or a payment request is sent.
HandleChat(k, parsed_items) ==
    /\ chats < MaxChats
    /\ NextKey(k)
    /\ chats' = chats + 1
    /\ sessions' = [sessions EXCEPT
                       ![k] = Some([get_session_data(k) EXCEPT
                                       !.parsed_items = Some(parsed_items)])]
    /\ outbox' = Send(outbox,
           chat_reply(inventory, k, parsed_items,
                      unavailable_items(parsed_items,
                          check_stock_multiple(inventory, parsed_items), 1)))
    /\ UNCHANGED <<inventory, config, commit_keys, paid, commits, rejects, clients,
                   table_exists, call, payment_requested,
                   requesters>>

\* handle_chat when the parser raises: an apology, nothing stored.
HandleChatUnparsed(k) ==
    /\ chats < MaxChats
    /\ NextKey(k)
    /\ chats' = chats + 1
    /\ outbox' = Send(outbox, [type |-> "ChatMessage", to |-> k,
                               text |-> [kind |-> "not_understood"]])
    /\ UNCHANGED <<inventory, config, sessions, commit_keys, paid, commits,
                   rejects, clients,
                   table_exists, call, payment_requested,
                   requesters>>

\* ---------------------------------------------------------- on_commit
\* on_commit up to its first await: the duplicate check on the
\* transaction's marker, then verify_and_charge is awaited for a skyfire
\* payment; any other method is rejected at once.
OnCommitReceive(d, k, tx, method, metadata) ==
    /\ commits[d].pc = "idle"
    /\ \A e \in 1..(d - 1) : commits[e].pc # "idle"
    /\ NextKey(k)
    /\ NextTx(tx)
    /\ LET h == [IdleCommit EXCEPT !.sender = k, !.tx = tx, !.method = method,
                                   !.metadata = metadata]
       IN  IF <<tx, k>> \in commit_keys
           THEN /\ commits' = [commits EXCEPT ![d] = Returned(h, "duplicate", NoRun)]
                /\ outbox' = outbox
           ELSE IF method = "skyfire"
           THEN /\ commits' = [commits EXCEPT ![d] = [h EXCEPT !.pc = "verify"]]
                /\ outbox' = outbox
           ELSE /\ commits' = [commits EXCEPT ![d] = Returned(h, "rejected", NoRun)]
                /\ outbox' = Send(outbox, [type |-> "RejectPayment", to |-> k])
    /\ UNCHANGED <<inventory, config, sessions, commit_keys, paid, chats,
                   rejects, clients,
                   table_exists, call, payment_requested,
                   requesters>>

\* on_commit setting the marker of the transaction whatever
\* verify_and_charge returned
MutOnCommitVerified(d, verified) ==
    /\ commits[d].pc = "verify"
    /\ verified \in verify_and_charge_results
    /\ commit_keys' = commit_keys \cup {<<commits[d].tx, commits[d].sender>>}
    /\ IF verified
       THEN /\ outbox' = Send(outbox, [type |-> "CompletePayment",
                                       to |-> commits[d].sender,
                                       tx |-> commits[d].tx])
            /\ commits' = [commits EXCEPT ![d].pc = "process"]
       ELSE /\ outbox' = Send(outbox, [type |-> "RejectPayment",
                                       to |-> commits[d].sender])
            /\ commits' = [commits EXCEPT
                               ![d] = Returned(commits[d], "rejected", NoRun)]
    /\ UNCHANGED <<inventory, config, sessions, paid, chats, rejects, clients,
                   table_exists, call, payment_requested,
                   requesters>>

\* verify_and_charge returns: when verified the marker is set and
\* CompletePayment is sent, otherwise RejectPayment is sent and the handler
\* returns.
OnCommitVerified(d, verified) ==
    /\ commits[d].pc = "verify"
    /\ verified \in verify_and_charge_results
    /\ LET h == commits[d]
       IN  IF verified
           THEN /\ commit_keys' = commit_keys \cup {<<h.tx, h.sender>>}
                /\ outbox' = Send(outbox, [type |-> "CompletePayment",
                                           to |-> h.sender, tx |-> h.tx])
                /\ commits' = [commits EXCEPT ![d].pc = "process"]
           ELSE /\ commit_keys' = commit_keys
                /\ outbox' = Send(outbox, [type |-> "RejectPayment",
                                           to |-> h.sender])
                /\ commits' = [commits EXCEPT ![d] = Returned(h, "rejected", NoRun)]
    /\ UNCHANGED <<inventory, config, sessions, paid, chats, rejects, clients,
                   table_exists, call, payment_requested,
                   requesters>>

\* The line items on_commit works on: the metadata's when it carries a
\* non-empty list, else the session's; None or Some(<<>>) when there are
\* none.
commit_parsed_items(metadata, session) ==
    IF metadata # None /\ Get(metadata) # <<>> THEN metadata
    ELSE IF session # None THEN Get(session).parsed_items
    ELSE None

\* on_commit when no line items are found: a chat message, and return.
CommitWithoutItems(d, confirmed) ==
    /\ sessions' = [sessions EXCEPT ![commits[d].sender] = confirmed]
    /\ inventory' = inventory
    /\ outbox' = Send(outbox,
           [type |-> "ChatMessage", to |-> commits[d].sender,
            text |-> [kind |-> "order_details_not_found"]])
    /\ commits' = [commits EXCEPT ![d] = Returned(commits[d], "no_items", NoRun)]

\* on_commit once run_agent_turn returned result: the session state is
\* updated with the state of the run and stored, the content is sent.
CommitAfterRun(d, session_data, parsed_items, result) ==
    /\ sessions' = [sessions EXCEPT ![commits[d].sender] =
           Some([session_data EXCEPT
                    !.state.parsed_items = result.state.parsed_items,
                    !.state.stock_availability = result.state.stock_availability,
                    !.state.inventory_subtracted = result.state.inventory_subtracted,
                    !.state.payment_status = result.state.payment_status,
                    !.state.status = result.state.status,
                    !.state.restocked_items = result.state.restocked_items,
                    !.state.error_message = result.state.error_message])]
    /\ inventory' = result.inv
    /\ outbox' = Send(outbox,
           [type |-> "ChatMessage", to |-> commits[d].sender,
            text |-> IF result.content = NoContent
                     THEN [kind |-> "being_processed"]
                     ELSE result.content])
    /\ commits' = [commits EXCEPT ![d] =
           Returned(commits[d], "ran",
                    [ran |-> TRUE,
                     parsed_items |-> parsed_items,
                     persisted |-> session_data.parsed_items,
                     before |-> inventory,
                     after |-> result.inv,
                     failed |-> result.failed,
                     nodes |-> result.nodes,
                     status |-> result.state.status,
                     content |-> result.content])]

\* on_commit with the line items found: the workflow runs on them, from the
\* stored session state or from an empty one.
CommitRun(d, session_data, parsed_items) ==
    CommitAfterRun(d, session_data, parsed_items,
                   run_agent_turn(inventory, parsed_items, session_data.state))

\* on_commit with the session as stored after payment_confirmed was set.
CommitItems(d, confirmed, found) ==
    IF found = None \/ Get(found) = <<>>
    THEN CommitWithoutItems(d, confirmed)
    ELSE CommitRun(d,
                   IF confirmed = None
                   THEN [parsed_items |-> None, state |-> EmptyState]
                   ELSE Get(confirmed),
                   Get(found))

CommitConfirmed(d, confirmed) ==
    CommitItems(d, confirmed, commit_parsed_items(commits[d].metadata, confirmed))

\* The rest of on_commit after CompletePayment was sent: the session is
\* marked paid and payment_confirmed, the line items are looked up and the
\* workflow is run on them; its state is stored and its last message sent.
OnCommitProcess(d) ==
    /\ commits[d].pc = "process"
    /\ paid' = paid \cup {commits[d].sender}
    /\ CommitConfirmed(d,
           IF sessions[commits[d].sender] = None THEN None
           ELSE Some([Get(sessions[commits[d].sender]) EXCEPT
                         !.state.payment_confirmed = Some(TRUE)]))
    /\ UNCHANGED <<config, commit_keys, chats, rejects, clients,
                   table_exists, call, payment_requested,
                   requesters>>

\* The session of handler d's order as on_commit stores it when it marks
\* the payment confirmed.
payment_confirmed_session(d) ==
    IF sessions[commits[d].sender] = None THEN None
    ELSE Some([Get(sessions[commits[d].sender]) EXCEPT
                  !.state.payment_confirmed = Some(TRUE)])

\* The rest of on_commit when run_agent_turn raises on its first access to
\* the store (a dependency fault): the marker is set and CompletePayment
\* sent already, the exception is caught, the payer is told the order will
\* be processed, and the handler returns with the order state as it was.
OnCommitProcessFault(d) ==
    /\ commits[d].pc = "process"
    /\ commit_parsed_items(commits[d].metadata, payment_confirmed_session(d))
           \notin {None, Some(<<>>)}
    /\ paid' = paid \cup {commits[d].sender}
    /\ sessions' = [sessions EXCEPT
                       ![commits[d].sender] = payment_confirmed_session(d)]
    /\ outbox' = Send(outbox,
           [type |-> "ChatMessage", to |-> commits[d].sender,
            text |-> [kind |-> "processed_shortly"]])
    /\ commits' = [commits EXCEPT ![d] = Returned(commits[d], "fault", NoRun)]
    /\ UNCHANGED <<inventory, config, commit_keys, chats, rejects, clients,
                   table_exists, call, payment_requested,
                   requesters>>

\* on_reject_payment putting one jacket back
MutOnRejectPayment(k) ==
    /\ rejects < MaxRejects
    /\ NextKey(k)
    /\ rejects' = rejects + 1
    /\ outbox' = Send(outbox, [type |-> "ChatMessage", to |-> k,
                               text |-> [kind |-> "you_rejected"]])
    /\ inventory' = restock_item(inventory, jacket, 1).inv
    /\ UNCHANGED <<config, sessions, commit_keys, paid, commits, chats, clients,
                   table_exists, call, payment_requested,
                   requesters>>

\* on_reject_payment: a chat message, nothing else.
OnRejectPayment(k) ==
    /\ rejects < MaxRejects
    /\ NextKey(k)
    /\ rejects' = rejects + 1
    /\ outbox' = Send(outbox, [type |-> "ChatMessage", to |-> k,
                               text |-> [kind |-> "you_rejected"]])
    /\ UNCHANGED <<inventory, config, sessions, commit_keys, paid, commits,
                   chats, clients,
                   table_exists, call, payment_requested,
                   requesters>>

Next ==
    \/ \E k \in Keys, parsed_items \in ChatLists : HandleChat(k, parsed_items)
    \/ \E k \in Keys : HandleChatUnparsed(k)
    \/ \E d \in 1..NumCommits, k \in Keys, tx \in TxIds, method \in Methods,
          metadata \in {None} \cup {Some(l) : l \in MetaLists} :
          OnCommitReceive(d, k, tx, method, metadata)
    \/ \E d \in 1..NumCommits, verified \in BOOLEAN : OnCommitVerified(d, verified)
    \/ \E d \in 1..NumCommits : OnCommitProcess(d)
    \/ \E d \in 1..NumCommits : OnCommitProcessFault(d)
    \/ \E k \in Keys : OnRejectPayment(k)

Spec == Init /\ [][Next]_vars

\* ------------------------------------------------- the store, statement
\* by statement. subtract_inventory and restock_item each open their own
\* connection, SELECT the quantity, and UPDATE the row with a quantity
\* computed in Python; the UPDATE and its commit are one transaction, the
\* SELECT before it is not part of it. Callers in different threads or
\* processes interleave between the two statements.
StoreOps == {"subtract_inventory", "restock_item"}
StoreNames == {jacket, socks}
StoreQtys == 1..MaxStoreQty

StoreCall(c, op, item_name, quantity) ==
    /\ clients[c].pc = "idle"
    /\ clients' = [clients EXCEPT ![c] =
           [IdleClient EXCEPT !.pc = "select", !.op = op,
                              !.item_name = item_name, !.quantity = quantity]]
    /\ UNCHANGED <<inventory, config, sessions, commit_keys, paid, outbox,
                   commits, chats, rejects,
                   table_exists, call, payment_requested,
                   requesters>>

\* The SELECT and the checks on its result: no row, or (subtract_inventory)
\* fewer on hand than asked for, returns False.
StoreSelect(c) ==
    /\ clients[c].pc = "select"
    /\ clients' = [clients EXCEPT ![c] =
           IF clients[c].item_name \notin DOMAIN inventory
           THEN [clients[c] EXCEPT !.pc = "returned", !.ret = FALSE]
           ELSE IF /\ clients[c].op = "subtract_inventory"
                   /\ insufficient(inventory[clients[c].item_name].quantity,
                                   clients[c].quantity)
           THEN [clients[c] EXCEPT
                    !.pc = "returned", !.ret = FALSE,
                    !.current_qty = inventory[clients[c].item_name].quantity]
           ELSE [clients[c] EXCEPT
                    !.pc = "update",
                    !.current_qty = inventory[clients[c].item_name].quantity]]
    /\ UNCHANGED <<inventory, config, sessions, commit_keys, paid, outbox,
                   commits, chats, rejects,
                   table_exists, call, payment_requested,
                   requesters>>

\* new_qty as the caller computes it from what it read
new_qty(client) ==
    IF client.op = "subtract_inventory"
    THEN client.current_qty - client.quantity
    ELSE client.current_qty + client.quantity

\* The UPDATE with the computed quantity, the commit, and return True.
StoreUpdate(c) ==
    /\ clients[c].pc = "update"
    /\ inventory' = [inventory EXCEPT
           ![clients[c].item_name].quantity = new_qty(clients[c])]
    /\ clients' = [clients EXCEPT ![c].pc = "returned", ![c].ret = TRUE]
    /\ UNCHANGED <<config, sessions, commit_keys, paid, outbox, commits,
                   chats, rejects,
                   table_exists, call, payment_requested,
                   requesters>>

NextStore ==
    \/ \E c \in 1..NumClients, op \in StoreOps, item_name \in StoreNames,
          quantity \in StoreQtys : StoreCall(c, op, item_name, quantity)
    \/ \E c \in 1..NumClients : StoreSelect(c)
    \/ \E c \in 1..NumClients : StoreUpdate(c)

SpecStore == Init /\ [][NextStore]_vars

\* ------------------------------------------------- the store, call by
\* call: the callers call subtract_inventory or restock_item one after
\* another, each call running from its SELECT to its return before the
\* next begins. clients[c] keeps the call of caller c, the quantity the
\* item had when it was made and what it returned.
store_call(inv, op, item_name, quantity) ==
    IF op = "subtract_inventory"
    THEN subtract_inventory(inv, item_name, quantity)
    ELSE restock_item(inv, item_name, quantity)

SeqReturn(c, op, item_name, quantity, r) ==
    /\ inventory' = r.inv
    /\ clients' = [clients EXCEPT ![c] =
           [pc |-> "returned", op |-> op, item_name |-> item_name,
            quantity |-> quantity,
            current_qty |-> IF item_name \in DOMAIN inventory
                            THEN inventory[item_name].quantity ELSE 0,
            ret |-> r.success]]

SeqCall(c, op, item_name, quantity) ==
    /\ clients[c].pc = "idle"
    /\ \A e \in 1..(c - 1) : clients[e].pc = "returned"
    /\ SeqReturn(c, op, item_name, quantity,
                 store_call(inventory, op, item_name, quantity))
    /\ UNCHANGED <<config, sessions, commit_keys, paid, outbox, commits,
                   chats, rejects,
                   table_exists, call, payment_requested,
                   requesters>>

NextSeq ==
    \E c \in 1..NumClients, op \in StoreOps, item_name \in StoreNames,
       quantity \in StoreQtys : SeqCall(c, op, item_name, quantity)

SpecSeq == Init /\ [][NextSeq]_vars

\* ------------------------------------------------- the library, call
\* by call: tools.database and the nodes of the workflow called directly,
\* as the tests under __main__ call them, on whatever inventory.db holds.
\* call keeps the last call, its arguments and what it returned.

\* How a caller may spell a name: as it is, capitalised, in capitals, with
\* a hyphen or a space after the first letter, or with spaces around it.
Spellings == {"same", "capital", "upper", "hyphen", "space", "padded"}

Spell(name, how) ==
    CASE how = "same" -> name
      [] how = "capital" -> <<UpperChar(Head(name))>> \o Tail(name)
      [] how = "upper" -> [i \in 1..Len(name) |-> UpperChar(name[i])]
      [] how = "hyphen" -> <<Head(name), "-">> \o Tail(name)
      [] how = "space" -> <<Head(name), " ">> \o Tail(name)
      [] how = "padded" -> <<" ">> \o name \o <<" ">>

\* The stored names, their plural or singular forms, and names of items
\* the shop does not carry.
Tshirt == <<"T", "s", "h", "i", "r", "t">>
sock == <<"s", "o", "c", "k">>
LibNames ==
    db_item_names
    \cup {tshirt \o <<"s">>, hat \o <<"s">>, jacket \o <<"s">>,
          <<"s", "h", "o", "e">>, <<"j", "e", "a", "n">>, socks, sock}

\* The names that are name itself, or name with a letter added or dropped
\* at its end.
Inflections(name) ==
    {m \in LibNames : \/ m = name
                      \/ Len(m) = Len(name) + 1 /\ SubSeq(m, 1, Len(name)) = name
                      \/ Len(name) = Len(m) + 1 /\ SubSeq(name, 1, Len(m)) = m}

\* The spellings a second caller may use for the item of item_name, and
\* three names whatever item_name is.
SpelledNames(item_name) ==
    {Spell(name, how) : name \in Inflections(item_name), how \in Spellings}
    \cup {TShirts, Tshirt, <<>>}

\* What every call of the library leaves alone.
LibFrame ==
    UNCHANGED <<config, sessions, commit_keys, paid, outbox, commits, chats,
                rejects, clients, payment_requested, requesters>>

\* Two calls of normalize_item_name, one after the other.
NormalizeItemName(item_name, other) ==
    /\ call' = [op |-> "normalize_item_name",
                item_name |-> item_name, other |-> other,
                ret |-> normalize_item_name(item_name),
                other_ret |-> normalize_item_name(other)]
    /\ UNCHANGED <<inventory, table_exists>>
    /\ LibFrame

\* What inventory.db may hold when the library is first called: no table,
\* an empty table, the seed catalog, the catalog after sales with a price
\* not yet filled in, and a table of another catalog.
Socks == <<"S", "o", "c", "k", "s">>
Tables ==
    {<<>>,
     sample_items,
     [sample_items EXCEPT ![jacket] = [quantity |-> 1, price |-> 0],
                          ![hat] = [quantity |-> 0, price |-> 999]],
     (Socks :> [quantity |-> 4, price |-> 0])
         @@ (jacket :> [quantity |-> 2, price |-> 0])
         @@ (tshirt :> [quantity |-> 7, price |-> 2500])}

\* The names store calls are made with, and the batches of them.
CallNames ==
    {Spell(name, how) : name \in {jacket, socks}, how \in Spellings}
    \cup {TShirts, hat \o <<"s">>}
BatchNames == {jacket, TShirts, socks, Spell(socks, "upper")}
Batches == BoundedSeq([item_name : BatchNames, quantity : {OrderQty}], MaxItems)

\* init_database, as agent.py calls it at startup.
InitDatabase ==
    /\ inventory' = init_database(inventory)
    /\ table_exists' = TRUE
    /\ call' = [op |-> "init_database", existed |-> table_exists,
                before |-> inventory]
    /\ LibFrame

\* A read: get_connection, the SELECTs, the value returned.
CheckStock(item_name) ==
    /\ inventory' = get_connection(table_exists, inventory)
    /\ table_exists' = TRUE
    /\ call' = [op |-> "check_stock", item_name |-> item_name,
                before |-> inventory,
                ret |-> check_stock(get_connection(table_exists, inventory),
                                    item_name)]
    /\ LibFrame

CheckStockMultiple(items) ==
    /\ inventory' = get_connection(table_exists, inventory)
    /\ table_exists' = TRUE
    /\ call' = [op |-> "check_stock_multiple", items |-> items,
                before |-> inventory,
                ret |-> check_stock_multiple(
                            get_connection(table_exists, inventory), items)]
    /\ LibFrame

GetItemPrice(item_name) ==
    /\ inventory' = get_connection(table_exists, inventory)
    /\ table_exists' = TRUE
    /\ call' = [op |-> "get_item_price", item_name |-> item_name,
                before |-> inventory,
                ret |-> get_item_price(get_connection(table_exists, inventory),
                                       item_name)]
    /\ LibFrame

GetItemsPrices(items) ==
    /\ inventory' = get_connection(table_exists, inventory)
    /\ table_exists' = TRUE
    /\ call' = [op |-> "get_items_prices", items |-> items,
                before |-> inventory,
                ret |-> get_items_prices(
                            get_connection(table_exists, inventory), items)]
    /\ LibFrame

\* subtract_inventory or restock_item, a whole call; restocking stops at
\* MaxLibQty units on hand.
LibStoreCall(op, item_name, quantity) ==
    /\ op = "restock_item" /\ item_name \in DOMAIN inventory
           => inventory[item_name].quantity + quantity <= MaxLibQty
    /\ inventory' = store_call(get_connection(table_exists, inventory),
                               op, item_name, quantity).inv
    /\ table_exists' = TRUE
    /\ call' = [op |-> op, item_name |-> item_name, quantity |-> quantity,
                before |-> inventory,
                ret |-> store_call(get_connection(table_exists, inventory),
                                   op, item_name, quantity).success]
    /\ LibFrame

\* The state the test under __main__ hands to restocker_node: an order
\* whose stock was subtracted and whose payment failed.
test_state_for_restocker(parsed_items) ==
    [initial_state(parsed_items, EmptyState) EXCEPT
        !.inventory_subtracted = Some(TRUE),
        !.payment_status = "failed",
        !.status = "payment_failed"]

\* restocker_node called directly; r is what it returned. Restocking stops
\* at MaxLibQty units on hand.
RestockerReturn(parsed_items, state, r) ==
    /\ \A n \in DOMAIN inventory :
           r.inv[n].quantity > inventory[n].quantity
               => r.inv[n].quantity <= MaxLibQty
    /\ inventory' = r.inv
    /\ table_exists' = (table_exists \/ parsed_items # <<>>)
    /\ call' = [op |-> "restocker_node", items |-> parsed_items,
                before |-> inventory, state |-> state, ret |-> r.state]
    /\ LibFrame

RestockerNode(parsed_items) ==
    RestockerReturn(parsed_items, test_state_for_restocker(parsed_items),
        restocker_node(IF parsed_items = <<>> THEN inventory
                       ELSE get_connection(table_exists, inventory),
                       test_state_for_restocker(parsed_items)))

\* The payment_status a session state may carry into a run; Absent when the
\* key is not set.
PaymentStatuses == {Absent, "successful", "failed"}

\* run_agent_turn called directly, one whole run of the graph; r is what
\* it returned.
RunReturn(parsed_items, payment_status, r) ==
    /\ inventory' = r.inv
    /\ table_exists' = (table_exists \/ parsed_items # <<>>)
    /\ call' = [op |-> "run_agent_turn", items |-> parsed_items,
                payment_status |-> payment_status, before |-> inventory,
                nodes |-> r.nodes, ret |-> r.state]
    /\ LibFrame

RunAgentTurn(parsed_items, payment_status) ==
    RunReturn(parsed_items, payment_status,
        run_agent_turn(IF parsed_items = <<>> THEN inventory
                       ELSE get_connection(table_exists, inventory),
                       parsed_items,
                       [EmptyState EXCEPT !.payment_status = payment_status]))

\* route_after_payment called on a state with the given payment_status.
RouteAfterPayment(payment_status) ==
    /\ call' = [op |-> "route_after_payment",
                payment_status |-> payment_status,
                ret |-> route_after_payment(
                            [EmptyState EXCEPT !.payment_status = payment_status])]
    /\ UNCHANGED <<inventory, table_exists>>
    /\ LibFrame

InitLib ==
    /\ inventory \in Tables
    /\ table_exists \in {inventory # <<>>, TRUE}
    /\ config = "configured"
    /\ sessions = [k \in Keys |-> None]
    /\ commit_keys = {}
    /\ paid = {}
    /\ outbox = EmptyBag
    /\ commits = [d \in 1..NumCommits |-> IdleCommit]
    /\ chats = 0
    /\ rejects = 0
    /\ clients = [c \in 1..NumClients |-> IdleClient]
    /\ call = NoCall
    /\ payment_requested = {}
    /\ requesters = [r \in 1..NumRequesters |-> IdleRequester]

\* The resolver alone, called on the names callers may spell.
NextResolve ==
    \E item_name \in LibNames \cup {TShirts} :
        \E other \in SpelledNames(item_name) :
            NormalizeItemName(item_name, other)

SpecResolve == Init /\ [][NextResolve]_vars

NextLib ==
    \/ InitDatabase
    \/ \E item_name \in CallNames : CheckStock(item_name)
    \/ \E items \in Batches : CheckStockMultiple(items)
    \/ \E item_name \in CallNames : GetItemPrice(item_name)
    \/ \E items \in Batches : GetItemsPrices(items)
    \/ \E op \in StoreOps, item_name \in StoreNames :
           LibStoreCall(op, item_name, OrderQty)

SpecLib == InitLib /\ [][NextLib]_vars

\* The workflow called directly, as the tests under __main__ do: whole
\* runs of the graph, restocker_node on its own, and the routing function.
NextNode ==
    \/ \E parsed_items \in Batches : RestockerNode(parsed_items)
    \/ \E parsed_items \in Batches, payment_status \in PaymentStatuses :
           RunAgentTurn(parsed_items, payment_status)
    \/ \E payment_status \in PaymentStatuses : RouteAfterPayment(payment_status)

SpecNode == InitLib /\ [][NextNode]_vars

\* ------------------------------------------- request_payment_from_user,
\* await by await. The calls run on one event loop: a call runs from one
\* await to the next without interruption, and other calls may run while it
\* awaits ctx.send.
RequestFrame ==
    UNCHANGED <<inventory, config, sessions, commit_keys, paid, commits, chats,
                rejects, clients, table_exists, call>>

\* The RequestPayment request_payment_from_user sends.
payment_request(user) ==
    [type |-> "RequestPayment", to |-> user, reference |-> user]

\* The call up to its first await: the test of the marker, then either the
\* "not configured" message and return, or the send of the RequestPayment.
RequestPaymentFromUser(r, user) ==
    /\ requesters[r].pc = "idle"
    /\ IF user \in payment_requested
       THEN /\ requesters' = [requesters EXCEPT ![r] =
                    [pc |-> "done", user |-> user, outcome |-> "already_sent"]]
            /\ outbox' = outbox
       ELSE IF get_skyfire_service_id = None
       THEN /\ requesters' = [requesters EXCEPT ![r] =
                    [pc |-> "done", user |-> user, outcome |-> "not_configured"]]
            /\ outbox' = Send(outbox, [type |-> "ChatMessage", to |-> user,
                                       text |-> [kind |-> "payment_not_configured"]])
       ELSE /\ requesters' = [requesters EXCEPT ![r] =
                    [pc |-> "send", user |-> user, outcome |-> Absent]]
            /\ outbox' = outbox
    /\ UNCHANGED payment_requested
    /\ RequestFrame

\* ctx.send returns: the request is out, the marker is stored, the call
\* returns.
RequestPaymentSent(r) ==
    /\ requesters[r].pc = "send"
    /\ outbox' = Send(outbox, payment_request(requesters[r].user))
    /\ payment_requested' = payment_requested \cup {requesters[r].user}
    /\ requesters' = [requesters EXCEPT ![r].pc = "done", ![r].outcome = "sent"]
    /\ RequestFrame

NextRequest ==
    \/ \E r \in 1..NumRequesters, user \in Keys : RequestPaymentFromUser(r, user)
    \/ \E r \in 1..NumRequesters : RequestPaymentSent(r)

SpecRequest == Init /\ [][NextRequest]_vars

\* ------------------------------------------------------------- claims
Reserved(c, item_name) ==
    /\ clients[c].pc = "returned"
    /\ clients[c].op = "subtract_inventory"
    /\ clients[c].item_name = item_name
    /\ clients[c].ret

RECURSIVE SumReserved(_, _)
SumReserved(c, item_name) ==
    IF c = 0 THEN 0
    ELSE (IF Reserved(c, item_name) THEN clients[c].quantity ELSE 0)
         + SumReserved(c - 1, item_name)

OnlyReserveCalls == \A c \in 1..NumClients : clients[c].op # "restock_item"

\* C1: no oversell. When the callers of the store only reserve, the
\* quantities of the subtract_inventory calls that returned True on an item
\* sum to at most the quantity the item had before any of them ran.
C1_NoOversell ==
    OnlyReserveCalls =>
        \A item_name \in DOMAIN sample_items :
            SumReserved(NumClients, item_name) <= sample_items[item_name].quantity

\* What the handler instances did: d ran the workflow; the quantities of
\* the first n lines of items that name item_name, summed.
Ran(d) == commits[d].run.ran
Completed(d) == Ran(d) /\ commits[d].run.status = "completed"

RECURSIVE LineSum(_, _, _)
LineSum(items, item_name, n) ==
    IF n = 0 THEN 0
    ELSE (IF items[n].item_name = item_name THEN items[n].quantity ELSE 0)
         + LineSum(items, item_name, n - 1)

PaymentRequests == {m \in BagToSet(outbox) : m.type = "RequestPayment"}

\* C2: compensation. When the reservation of an order fails partway (a
\* subtract_inventory call returns False after earlier ones returned True),
\* every quantity is back at its value before the reservation and the
\* order ends rejected.
C2_CompensationCorrectness ==
    \A d \in DOMAIN commits :
        (Ran(d) /\ commits[d].run.failed > 1) =>
            /\ commits[d].run.after = commits[d].run.before
            /\ commits[d].run.status = "rejected"

\* C3: idempotent settlement. Two deliveries of the same CommitPayment
\* (same order key, same transaction id) run the workflow at most once and
\* send at most one CompletePayment.
C3_IdempotentSettlement ==
    \A d, e \in DOMAIN commits :
        (/\ d # e
         /\ commits[d].pc # "idle"
         /\ commits[e].pc # "idle"
         /\ commits[d].sender = commits[e].sender
         /\ commits[d].tx = commits[e].tx) =>
            /\ ~(Ran(d) /\ Ran(e))
            /\ CopiesIn([type |-> "CompletePayment", to |-> commits[d].sender,
                         tx |-> commits[d].tx], outbox) <= 1

\* C4: success only for a mutation that applied. An order is "completed",
\* or told "Order completed successfully", only if subtract_inventory
\* returned True for every line of the order in that run.
C4_SuccessOnlyIfSubtracted ==
    \A d \in DOMAIN commits :
        (/\ Ran(d)
         /\ \/ commits[d].run.status = "completed"
            \/ commits[d].run.content.kind = "completed") =>
            commits[d].run.failed = 0

\* C5: the quantity of every inventory record is non-negative in every
\* reachable state.
C5_QuantityNonNegative ==
    \A item_name \in DOMAIN inventory : inventory[item_name].quantity >= 0

\* a subtract_inventory call of an order was refused for lack of stock
C5_Witness ==
    \E d \in DOMAIN commits :
        /\ Ran(d)
        /\ commits[d].run.failed # 0
        /\ commits[d].run.parsed_items[commits[d].run.failed].item_name
               \in DOMAIN inventory

\* No handler instance has run the workflow yet.
NoRunYet == \A d \in DOMAIN commits : ~Ran(d)

Applied(run) ==
    IF run.nodes = <<"stock_management">> THEN 0
    ELSE IF run.failed = 0 THEN Len(run.parsed_items)
    ELSE run.failed - 1

RunReserves(run) ==
    /\ \A i \in 1..Len(run.nodes) : run.nodes[i] # "restocker"
    /\ DOMAIN run.after = DOMAIN run.before
    /\ \A item_name \in DOMAIN run.before :
           run.after[item_name].quantity
               = run.before[item_name].quantity
                 - LineSum(run.parsed_items, item_name, Applied(run))

C8_SettledOnceWhileAwaiting ==
    /\ \A d \in DOMAIN commits :
           Completed(d) => \E m \in PaymentRequests : m.to = commits[d].sender
    /\ \A d, e \in DOMAIN commits :
           (d # e /\ Completed(d) /\ Completed(e)) =>
               commits[d].sender # commits[e].sender

\* A payment-failure signal is handled in this step: a RejectPayment
\* arrives, or a CommitPayment is refused.
FailureHandled ==
    \/ rejects' = rejects + 1
    \/ \E d \in DOMAIN commits :
           /\ commits[d].outcome # "rejected"
           /\ commits'[d].outcome = "rejected"

ReservedRun(d, k) ==
    /\ Completed(d)
    /\ commits[d].sender = k
    /\ commits[d].run.failed = 0

C10_EmptyListNoPaymentRequest ==
    \A m \in PaymentRequests : m.parsed_items # <<>>

\* C11: an order with a line item of zero or negative quantity fails
\* validation before any mutation of the store: the warehouse step does not
\* run for it and every quantity is unchanged.
C11_NonPositiveQuantityRejected ==
    \A d \in DOMAIN commits :
        (/\ Ran(d)
         /\ \E i \in 1..Len(commits[d].run.parsed_items) :
                commits[d].run.parsed_items[i].quantity <= 0) =>
            /\ commits[d].run.after = commits[d].run.before
            /\ \A i \in 1..Len(commits[d].run.nodes) :
                   commits[d].run.nodes[i] # "warehouse"

Restocked(c, item_name) ==
    /\ clients[c].pc = "returned"
    /\ clients[c].op = "restock_item"
    /\ clients[c].item_name = item_name
    /\ clients[c].ret

RECURSIVE SumRestocked(_, _)
SumRestocked(c, item_name) ==
    IF c = 0 THEN 0
    ELSE (IF Restocked(c, item_name) THEN clients[c].quantity ELSE 0)
         + SumRestocked(c - 1, item_name)

\* No caller of the store is between its SELECT and its return.
StoreQuiet == \A c \in 1..NumClients : clients[c].pc \in {"idle", "returned"}

\* C12: no lost update. Once the concurrent subtract_inventory and
\* restock_item calls have returned, the quantity of every item is its
\* initial quantity minus the quantities of the reserves that returned True
\* plus the quantities of the restocks that returned True.
C12_NoLostUpdate ==
    StoreQuiet =>
        \A item_name \in DOMAIN sample_items :
            inventory[item_name].quantity
                = sample_items[item_name].quantity
                  - SumReserved(NumClients, item_name)
                  + SumRestocked(NumClients, item_name)

\* The order of key k has a terminal status.
Terminal(k) ==
    /\ sessions[k] # None
    /\ Get(sessions[k]).state.status \in {"completed", "rejected"}

\* e is a delivery of the signal of d that was dropped as a duplicate.
RedeliveryDropped(d, e) ==
    /\ d # e
    /\ commits[e].sender = commits[d].sender
    /\ commits[e].tx = commits[d].tx
    /\ commits[e].outcome = "duplicate"

\* C13: faults never strand an order. When the handling of a verified
\* settlement failed with a fault, the order reaches a terminal status, or
\* a redelivery of the settlement signal or a payment-failure signal can
\* still drive it there: the redelivery is dropped and the failure signal
\* handled without effect only for an order that is terminal.
C13_FaultsNeverStrand ==
    \A d, e \in DOMAIN commits :
        (/\ commits[d].outcome = "fault"
         /\ RedeliveryDropped(d, e)
         /\ rejects > 0) =>
            Terminal(commits[d].sender)

WarehouseRan(run) == \E i \in 1..Len(run.nodes) : run.nodes[i] = "warehouse"

\* every line of the run is covered by the stock of its resolved name
AllInStock(run) ==
    \A i \in 1..Len(run.parsed_items) :
        check_stock(run.before, normalize_item_name(run.parsed_items[i].item_name))
            >= run.parsed_items[i].quantity

\* C14: the workflow goes from the stock check to the warehouse step if and
\* only if, for every line item, the quantity on hand of the resolved name
\* is at least the requested quantity; otherwise the order is rejected and
\* the warehouse step does not execute.
C14_WarehouseIffInStock ==
    \A d \in DOMAIN commits :
        Ran(d) =>
            /\ WarehouseRan(commits[d].run) <=> AllInStock(commits[d].run)
            /\ ~AllInStock(commits[d].run) =>
                   /\ commits[d].run.status = "rejected"
                   /\ commits[d].run.nodes = <<"stock_management">>

\* one run was rejected although it has a line in stock under a name only
\* the resolver finds, another run went on to the warehouse
C14_Witness ==
    /\ \E d \in DOMAIN commits :
           /\ Ran(d)
           /\ commits[d].run.nodes = <<"stock_management">>
           /\ \E i \in 1..Len(commits[d].run.parsed_items) :
                  commits[d].run.parsed_items[i].item_name
                      \notin DOMAIN commits[d].run.before
    /\ \E e \in DOMAIN commits : Ran(e) /\ WarehouseRan(commits[e].run)

\* The lines of items whose quantity on hand (of the resolved name) is below
\* the requested quantity, in order, each with what was requested and what
\* is available.
RECURSIVE ShortLines(_, _, _)
ShortLines(inv, items, i) ==
    IF i > Len(items) THEN <<>>
    ELSE (IF check_stock(inv, normalize_item_name(items[i].item_name))
                 < items[i].quantity
          THEN <<[item_name |-> items[i].item_name,
                  requested |-> items[i].quantity,
                  available |-> check_stock(inv,
                                    normalize_item_name(items[i].item_name))]>>
          ELSE <<>>)
         \o ShortLines(inv, items, i + 1)

ShortNames(short) == {short[i].item_name : i \in 1..Len(short)}

\* What handle_chat does about the lines short of stock: it changes no
\* quantity, and reports exactly these lines when there are any.
ChatRejection(k, short) ==
    /\ inventory' = inventory
    /\ short # <<>> =>
           outbox' = Send(outbox,
               [type |-> "ChatMessage", to |-> k,
                text |-> [kind |-> "stock_unavailable", parts |-> short]])
    /\ short = <<>> =>
           \A m \in BagToSet(outbox') :
               (m.type = "ChatMessage" /\ m.text.kind = "stock_unavailable") =>
                   CopiesIn(m, outbox') = CopiesIn(m, outbox)

\* What a run rejected by the stock check tells the payer: item names
\* only, each the name of a line short of stock, and no quantity changed.
RunRejection(run, short) ==
    short # <<>> =>
        /\ run.after = run.before
        /\ run.content.kind = "stock_rejected"
        /\ DOMAIN run.content = {"kind", "names"}
        /\ \A i \in 1..Len(run.content.names) :
               run.content.names[i] \in ShortNames(short)

RECURSIVE ResolvedSum(_, _, _)
ResolvedSum(items, item_name, n) ==
    IF n = 0 THEN 0
    ELSE (IF normalize_item_name(items[n].item_name) = item_name
          THEN items[n].quantity ELSE 0)
         + ResolvedSum(items, item_name, n - 1)

\* The run is the settlement of a single order of in-stock items: its
\* lines are those of a payment request sent to its key, no other order
\* has touched the seeded store, every line asks for at least one of an
\* item the resolver knows, and the stock covers what is asked per item.
SingleInStockOrder(d, run) ==
    /\ \E m \in PaymentRequests :
           m.to = commits[d].sender /\ m.parsed_items = run.parsed_items
    /\ run.before = sample_items
    /\ \A i \in 1..Len(run.parsed_items) :
           /\ run.parsed_items[i].quantity >= 1
           /\ normalize_item_name(run.parsed_items[i].item_name)
                  \in DOMAIN run.before
    /\ \A item_name \in DOMAIN run.before :
           ResolvedSum(run.parsed_items, item_name, Len(run.parsed_items))
               <= run.before[item_name].quantity

HappyPath(run) ==
    /\ run.status = "completed"
    /\ \A item_name \in DOMAIN run.before :
           run.after[item_name].quantity
               = run.before[item_name].quantity
                 - ResolvedSum(run.parsed_items, item_name, Len(run.parsed_items))
    /\ run.content.kind = "completed"
    /\ run.content.summary
           = [i \in 1..Len(run.parsed_items) |->
                 <<run.parsed_items[i].quantity, "x",
                   run.parsed_items[i].item_name>>]

\* C16: happy path. For a single order of in-stock items with no other
\* order running, after the verified settlement the order is completed,
\* the quantity of each item is its initial quantity minus the requested
\* quantity, and the completion message lists every line as
\* '<quantity>x <name>'.
C16_HappyPath ==
    \A d \in DOMAIN commits :
        (Ran(d) /\ SingleInStockOrder(d, commits[d].run)) =>
            HappyPath(commits[d].run)

\* C17: on settlement the line items reserved and fulfilled are exactly
\* those persisted for the order key by the order request: a run for a key
\* with a persisted order works on the persisted line items.
C17_SettlesPersistedItems ==
    \A d \in DOMAIN commits :
        (Ran(d) /\ commits[d].run.persisted # None) =>
            commits[d].run.persisted = Some(commits[d].run.parsed_items)

\* Every record but that of item_name is the same before and after the step.
OthersUnchanged(item_name) ==
    /\ DOMAIN inventory' = DOMAIN inventory
    /\ \A n \in DOMAIN inventory : n # item_name => inventory'[n] = inventory[n]

\* C18: reserve returns false and mutates nothing if the item is unknown
\* or has fewer on hand than asked; otherwise it returns true and lowers
\* that item's quantity by exactly the quantity asked, every other record
\* unchanged.
C18_ReserveContract ==
    [][\A c \in 1..NumClients, item_name \in StoreNames, quantity \in StoreQtys :
          SeqCall(c, "subtract_inventory", item_name, quantity) =>
              IF \/ item_name \notin DOMAIN inventory
                 \/ inventory[item_name].quantity < quantity
              THEN ~clients'[c].ret /\ inventory' = inventory
              ELSE /\ clients'[c].ret
                   /\ inventory'[item_name].quantity
                          = inventory[item_name].quantity - quantity
                   /\ inventory'[item_name].price = inventory[item_name].price
                   /\ OthersUnchanged(item_name)]_vars

\* one reserve succeeded, a later one on the same item was refused for lack
\* of stock
C18_Witness ==
    \E c, e \in 1..NumClients :
        /\ Reserved(c, clients[c].item_name)
        /\ clients[e].pc = "returned"
        /\ clients[e].op = "subtract_inventory"
        /\ clients[e].item_name = clients[c].item_name
        /\ ~clients[e].ret

\* C19: restock returns false and mutates nothing if the item is unknown;
\* for a known item it succeeds, whatever the quantity on hand, and raises
\* that item's quantity by exactly the quantity asked.
C19_RestockContract ==
    [][\A c \in 1..NumClients, item_name \in StoreNames, quantity \in StoreQtys :
          SeqCall(c, "restock_item", item_name, quantity) =>
              IF item_name \notin DOMAIN inventory
              THEN ~clients'[c].ret /\ inventory' = inventory
              ELSE /\ clients'[c].ret
                   /\ inventory'[item_name].quantity
                          = inventory[item_name].quantity + quantity
                   /\ inventory'[item_name].price = inventory[item_name].price
                   /\ OthersUnchanged(item_name)]_vars

\* a restock of a known item succeeded on a quantity already above the
\* seeded one
C19_Witness ==
    \E c \in 1..NumClients :
        /\ Restocked(c, jacket)
        /\ clients[c].current_qty > sample_items[jacket].quantity

\* C20: round trip. Reserving Q of a known item with at least Q on hand and
\* then restocking Q of it, nothing in between, returns its quantity to the
\* value before the reserve.
C20_RoundTrip ==
    [][\A c \in 2..NumClients, item_name \in StoreNames, quantity \in StoreQtys :
          (/\ SeqCall(c, "restock_item", item_name, quantity)
           /\ Reserved(c - 1, item_name)
           /\ clients[c - 1].quantity = quantity) =>
              /\ clients'[c].ret
              /\ inventory'[item_name].quantity = clients[c - 1].current_qty]_vars

\* a reserve of Q followed at once by a restock of Q of the same item
C20_Witness ==
    \E c \in 2..NumClients :
        /\ Reserved(c - 1, clients[c].item_name)
        /\ Restocked(c, clients[c].item_name)
        /\ clients[c - 1].quantity = clients[c].quantity

\* What is left of a spelling once case, hyphens and spaces are set aside.
Letters(s) == RemoveChar(RemoveChar(Lower(s), "-"), " ")

\* The plural and singular forms the shop knows for its items.
KnownForms ==
    {{tshirt, tshirt \o <<"s">>}, {hat, hat \o <<"s">>},
     {jacket, jacket \o <<"s">>}, {shoes, <<"s", "h", "o", "e">>},
     {jeans, <<"j", "e", "a", "n">>}}

SameItem(a, b) ==
    \/ Letters(a) = Letters(b)
    \/ \E forms \in KnownForms : Letters(a) \in forms /\ Letters(b) \in forms

Resolved == call.op = "normalize_item_name"

\* C21: normalize_item_name returns the same canonical id for two names that
\* differ only in letter case, hyphens, spaces or a known plural or singular
\* form; "T-Shirts", "tshirt" and "Tshirt" resolve alike, and so do "shoe"
\* and "shoes".
C21_ResolverDeterminism ==
    Resolved =>
        /\ SameItem(call.item_name, call.other) => call.ret = call.other_ret
        /\ call.item_name \in {TShirts, tshirt} /\ call.other \in {TShirts, Tshirt}
               => call.ret = call.other_ret
        /\ call.item_name \in {shoes, <<"s", "h", "o", "e">>}
           /\ call.other \in {shoes, <<"s", "h", "o", "e">>}
               => call.ret = call.other_ret

C21_Witness ==
    /\ Resolved
    /\ call.item_name = TShirts
    /\ call.other = Tshirt
    /\ call.ret = tshirt
    /\ call.other_ret = tshirt

\* The names a resolver call was given, each with what it returned.
ResolverCalls ==
    {<<call.item_name, call.ret>>, <<call.other, call.other_ret>>}

NameChars ==
    {UpperChars[i] : i \in 1..Len(UpperChars)}
    \cup {LowerChars[i] : i \in 1..Len(LowerChars)} \cup {"-", " ", "_"}

\* C22: normalize_item_name always returns a string; for a name that
\* resolves to no stored item it returns the name in lower case with its
\* hyphens and spaces removed, which is the name as given only when the
\* name was spelled that way.
C22_UnresolvedIsNormalized ==
    Resolved =>
        \A c \in ResolverCalls :
            /\ \A i \in 1..Len(c[2]) : c[2][i] \in NameChars
            /\ c[2] \notin db_item_names => c[2] = Letters(c[1])

C22_Witness ==
    /\ Resolved
    /\ call.other = Spell(socks, "capital")
    /\ call.other_ret = socks

\* C22 as the specification states it: a name that resolves to no stored
\* item is returned exactly as it was given.
C22_UnresolvedPassesThrough ==
    Resolved =>
        \A c \in ResolverCalls : c[2] \notin db_item_names => c[2] = c[1]

\* The quantity of the first record found for name: by the name as given,
\* then by its canonical id, then by a case-insensitive match; 0 when none
\* is found.
FirstFound(inv, name) ==
    IF name \in DOMAIN inv THEN inv[name].quantity
    ELSE IF normalize_item_name(name) \in DOMAIN inv
    THEN inv[normalize_item_name(name)].quantity
    ELSE IF \E r \in DOMAIN inv : Lower(r) = Lower(name)
    THEN inv[CHOOSE r \in DOMAIN inv : Lower(r) = Lower(name)].quantity
    ELSE 0

\* C23: check_stock returns the quantity of the first record found by the
\* exact name, then the resolved id, then a case-insensitive match, and 0
\* when no record matches.
C23_CheckStockFirstFound ==
    call.op = "check_stock" => call.ret = FirstFound(inventory, call.item_name)

\* found by the case-insensitive match only
C23_Witness ==
    /\ call.op = "check_stock"
    /\ call.item_name = Spell(socks, "upper")
    /\ Socks \in DOMAIN inventory
    /\ call.ret = inventory[Socks].quantity
    /\ call.ret > 0

Unknown(inv, name) ==
    /\ name \notin DOMAIN inv
    /\ normalize_item_name(name) \notin DOMAIN inv
    /\ \A r \in DOMAIN inv : Lower(r) # Lower(name)

\* C24: check_stock_multiple returns, for every item of the batch, what
\* check_stock returns for that item; a name with no record yields 0 and
\* the other results of the batch are what they are without it.
C24_BatchAgreesWithSingle ==
    call.op = "check_stock_multiple" =>
        /\ DOMAIN call.ret = {call.items[i].item_name : i \in 1..Len(call.items)}
        /\ \A n \in DOMAIN call.ret :
               /\ call.ret[n] = check_stock(inventory, n)
               /\ Unknown(inventory, n) => call.ret[n] = 0

C24_Witness ==
    /\ call.op = "check_stock_multiple"
    /\ DOMAIN call.ret = {socks, TShirts}
    /\ Unknown(inventory, socks)
    /\ call.ret[socks] = 0
    /\ call.ret[TShirts] = 10

\* The quantities of the seed catalog.
SeedQuantities ==
    (tshirt :> 10) @@ (jeans :> 5) @@ (shoes :> 8) @@ (hat :> 15)
    @@ (jacket :> 3)

\* C25: init_database on an absent or empty table inserts exactly the seed
\* catalog; on a table that holds data it changes no quantity and changes
\* a price only where the price was missing; run a second time it changes
\* nothing.
C25_SeedingIdempotent ==
    [][call'.op = "init_database" =>
          /\ DOMAIN inventory = {} =>
                 /\ DOMAIN inventory' = DOMAIN SeedQuantities
                 /\ \A n \in DOMAIN SeedQuantities :
                        inventory'[n].quantity = SeedQuantities[n]
          /\ DOMAIN inventory # {} =>
                 /\ DOMAIN inventory' = DOMAIN inventory
                 /\ \A n \in DOMAIN inventory :
                        /\ inventory'[n].quantity = inventory[n].quantity
                        /\ inventory'[n].price # inventory[n].price
                               => inventory[n].price = 0
          /\ call.op = "init_database" => inventory' = inventory]_vars

\* a table with sales recorded and a price missing, after init_database
C25_Witness ==
    /\ call.op = "init_database"
    /\ call.existed
    /\ jacket \in DOMAIN call.before
    /\ call.before[jacket].price = 0
    /\ inventory[jacket].price > 0
    /\ inventory[jacket].quantity < SeedQuantities[jacket]
    /\ inventory[jacket].quantity = call.before[jacket].quantity

ReadOps ==
    {"check_stock", "check_stock_multiple", "get_item_price",
     "get_items_prices"}

\* C27: check_stock, check_stock_multiple, get_item_price and
\* get_items_prices leave every quantity and price as it was, and no
\* operation of the store deletes a record.
C27_ReadsChangeNothing ==
    [][/\ DOMAIN inventory \subseteq DOMAIN inventory'
       /\ call'.op \in ReadOps =>
              \A n \in DOMAIN inventory : inventory'[n] = inventory[n]]_vars

\* a read of a table in which a price is missing
C27_Witness ==
    /\ call.op \in ReadOps
    /\ call.before = inventory
    /\ jacket \in DOMAIN inventory
    /\ inventory[jacket].price = 0

ItemNames(items) == [i \in 1..Len(items) |-> items[i].item_name]

RestockerRan == call.op = "restocker_node" /\ call.items # <<>>

\* C28: restocker_node calls restock_item for every line item, records in
\* restocked_items exactly the names whose call returned True (those with
\* a record), in order, and ends with status "completed" whether or not
\* some or all of the calls failed.
C28_RestockerRecordsSuccesses ==
    RestockerRan =>
        /\ \A n \in DOMAIN call.before :
               inventory[n].quantity
                   = call.before[n].quantity
                     + LineSum(call.items, n, Len(call.items))
        /\ call.ret.restocked_items
               = Some(SelectSeq(ItemNames(call.items),
                                LAMBDA n : n \in DOMAIN inventory))
        /\ call.ret.status = "completed"

\* one call succeeded and one failed
C28_Witness ==
    /\ RestockerRan
    /\ call.items = <<[item_name |-> jacket, quantity |-> OrderQty],
                      [item_name |-> socks, quantity |-> OrderQty]>>
    /\ jacket \in DOMAIN call.before
    /\ call.ret.restocked_items = Some(<<jacket>>)
    /\ call.ret.status = "completed"
    /\ inventory[jacket].quantity = call.before[jacket].quantity + OrderQty

Executed(node) == \E i \in 1..Len(call.nodes) : call.nodes[i] = node

C26_ItemsPersistedBeforeRequest ==
    [][\A m \in BagToSet(outbox') :
           (/\ m.type = "RequestPayment"
            /\ CopiesIn(m, outbox') > CopiesIn(m, outbox))
               => /\ sessions'[m.to] # None
                  /\ Get(sessions'[m.to]).parsed_items = Some(m.parsed_items)]_vars

C26_Witness ==
    \E m \in PaymentRequests :
        /\ m.parsed_items # <<>>
        /\ sessions[m.to] # None
        /\ Get(sessions[m.to]).parsed_items = Some(m.parsed_items)

Rejected(h) == h.pc = "done" /\ h.outcome = "rejected"

Verified(h) ==
    \/ h.pc = "process"
    \/ h.pc = "done" /\ h.outcome \notin {"rejected", "duplicate"}

\* C30: when verification fails (verify_and_charge returns False, or the
\* method is not "skyfire") on_commit sends RejectPayment and changes
\* nothing else: no quantity, no session entry, no paid flag and no marker
\* of the transaction. A CommitPayment is dropped as a duplicate only when
\* another delivery of its transaction was verified, so one that follows a
\* rejected delivery is processed again.
C30_RejectionChangesNothing ==
    /\ [][\A d \in DOMAIN commits :
              Rejected(commits'[d]) /\ ~Rejected(commits[d]) =>
                  /\ inventory' = inventory
                  /\ sessions' = sessions
                  /\ paid' = paid
                  /\ commit_keys' = commit_keys
                  /\ outbox' = Send(outbox, [type |-> "RejectPayment",
                                             to |-> commits'[d].sender])]_vars
    /\ [](\A e \in DOMAIN commits :
              commits[e].pc = "done" /\ commits[e].outcome = "duplicate" =>
                  \E d \in DOMAIN commits \ {e} :
                      /\ commits[d].tx = commits[e].tx
                      /\ commits[d].sender = commits[e].sender
                      /\ Verified(commits[d]))

\* a delivery rejected, and a later one of the same transaction verified
C30_Witness ==
    \E d, e \in DOMAIN commits :
        /\ d < e
        /\ Rejected(commits[d])
        /\ commits[e].tx = commits[d].tx
        /\ commits[e].sender = commits[d].sender
        /\ Verified(commits[e])
        /\ <<commits[e].tx, commits[e].sender>> \in commit_keys

\* The messages a step sends.
NewMessages ==
    {m \in BagToSet(outbox') : CopiesIn(m, outbox') > CopiesIn(m, outbox)}

LineShort(inv, line) == check_stock(inv, line.item_name) < line.quantity

StockUnavailable(m) ==
    m.type = "ChatMessage" /\ m.text.kind = "stock_unavailable"

NotUnderstood(m) == m.type = "ChatMessage" /\ m.text.kind = "not_understood"

\* C31: handle_chat sends a RequestPayment only if, when it checked, every
\* line item had at least the requested quantity available and a payment
\* service id is configured; when a line item is short it sends the
\* stock-unavailable chat message and nothing else.
C31_PaymentRequestOnlyIfInStock ==
    [][chats' = chats + 1 =>
          \A m \in NewMessages :
              /\ m.type = "RequestPayment" =>
                     /\ config = "configured"
                     /\ \A i \in 1..Len(m.parsed_items) :
                            ~LineShort(inventory, m.parsed_items[i])
              /\ (/\ ~NotUnderstood(m)
                  /\ \E i \in 1..Len(Get(Get(sessions'[m.to]).parsed_items)) :
                         LineShort(inventory,
                                   Get(Get(sessions'[m.to]).parsed_items)[i]))
                     => StockUnavailable(m) /\ NewMessages = {m}]_vars

\* a shortage reported to one payer without a payment request to them
C31_Witness ==
    \E m \in BagToSet(outbox) :
        /\ StockUnavailable(m)
        /\ chats = 1
        /\ \A r \in PaymentRequests : r.to # m.to

\* C32: request_payment_from_user sends at most one RequestPayment for a
\* user address and session, whatever the interleaving of the calls made
\* for that pair; a call made once the marker is stored sends nothing.
C32_OneRequestPerSession ==
    /\ \A user \in Keys : CopiesIn(payment_request(user), outbox) <= 1
    /\ \A r \in DOMAIN requesters :
           requesters[r].outcome = "already_sent" =>
               requesters[r].user \in payment_requested

ConnectingOps == ReadOps \cup StoreOps

\* C33: a store operation that opens a connection while the inventory table
\* is absent or empty first inserts the seed catalog, so that the first
\* check_stock on such a store returns the seed quantity of the item.
C33_FirstUseSeeds ==
    (call.op \in ConnectingOps /\ DOMAIN call.before = {}) =>
        /\ DOMAIN inventory = DOMAIN SeedQuantities
        /\ (/\ call.op = "check_stock"
            /\ normalize_item_name(call.item_name) \in DOMAIN SeedQuantities)
               => call.ret = SeedQuantities[normalize_item_name(call.item_name)]

\* C34: when the stock check of a run passes (the warehouse step executes)
\* and nothing else changes the store during the run, subtract_inventory
\* returns True for every line item, whether a line names its item by a
\* variant such as "T-Shirts" or several lines name the same item.
C34_CheckedOrderReserves ==
    \A d \in DOMAIN commits :
        (/\ Ran(d)
         /\ WarehouseRan(commits[d].run)
         /\ \A i \in 1..Len(commits[d].run.parsed_items) :
                commits[d].run.parsed_items[i].quantity >= 1) =>
            commits[d].run.failed = 0

\* C35: no paid-but-unfulfilled order. Once CompletePayment was sent for a
\* delivery and its handler returned, the order has status "completed" and
\* the quantity of every item is down by what the order asked of it; an
\* order is never charged and then rejected for lack of stock.
C35_PaidOrdersAreFulfilled ==
    \A d \in DOMAIN commits :
        (commits[d].pc = "done" /\ Verified(commits[d])) =>
            /\ Ran(d)
            /\ commits[d].run.status = "completed"
            /\ commits[d].run.content.kind # "stock_rejected"
            /\ \A item_name \in DOMAIN commits[d].run.before :
                   commits[d].run.after[item_name].quantity
                       = commits[d].run.before[item_name].quantity
                         - ResolvedSum(commits[d].run.parsed_items, item_name,
                                       Len(commits[d].run.parsed_items))

\* The records the stock lookup may find for name: by the name as given,
\* else by its canonical id, else by a case-insensitive match.
FoundRecords(inv, name) ==
    IF name \in DOMAIN inv THEN {name}
    ELSE IF normalize_item_name(name) \in DOMAIN inv
    THEN {normalize_item_name(name)}
    ELSE {r \in DOMAIN inv : Lower(r) = Lower(name)}

\* C36: for every item name for which the stock lookup finds a record,
\* get_items_prices returns the unit price of that record.
C36_PriceLookupResolvesNames ==
    call.op = "get_items_prices" =>
        \A n \in DOMAIN call.ret :
            \A r \in FoundRecords(inventory, n) :
                call.ret[n] = inventory[r].price

GraphNodes == {"stock_management", "warehouse", "cashier", "restocker"}

====
